---- MODULE Spec2Model ----
(***************************************************************************)
(* Login orchestration of ElDaiko/POO-POC: AuthServiceImpl (credential     *)
(* authenticator), LocalStorageService (session store adapter),            *)
(* SessionManager and LoginUserUseCase, wired as createLoginUseCase does.  *)
(*                                                                         *)
(* Strings that the code inspects character by character (the email) are  *)
(* sequences of one-character strings.  Date.now() is the variable now;    *)
(* the clock unit of the model is one hour of the program's clock.         *)
(***************************************************************************)
EXTENDS Integers, Sequences, FiniteSets, TLC

\* ------------------------------------------------------------------ bounds

\* The clock stops advancing at MaxNow.
MaxNow == 2

\* The callers issue at most MaxCalls execute() calls that reach the Authenticator.
MaxCalls == 2

\* Largest session duration, in hours, a Session Manager is constructed with.
MaxHours == 1

\* Every string of at most MaxLen characters is tried as an email.
MaxLen == 1

\* Callers of the Authenticator stop asking for tokens once MaxTokens exist.
MaxTokens == 3

\* At most MaxRefreshing refreshToken() calls await their delay at a time.
MaxRefreshing == 2

\* ------------------------------------------------------------------ values

\* JavaScript's null.
null == [null |-> TRUE]

\* JavaScript's undefined: what reading a property an object lacks gives.
undefined == [undefined |-> TRUE]

\* sessionDurationHours * 60 * 60 * 1000, in the model's clock unit (one hour).
MsPerHour == 1

TestEmail == <<"t","e","s","t","@","t","e","s","t",".","c","o","m">>
AdminEmail == <<"a","d","m","i","n","@","t","e","s","t",".","c","o","m">>
BadEmail == <<"b","a","d","@","t","e","s","t",".","c","o","m">>

TestUser == [id |-> "1", email |-> TestEmail, name |-> "Usuario Test"]
AdminUser == [id |-> "2", email |-> AdminEmail, name |-> "Administrador"]

Users == {TestUser, AdminUser}

\* ------------------------------------------------------------------ inputs

InputChars == {"a", "@", ".", " "}

RECURSIVE SeqsOfLen(_, _)
SeqsOfLen(S, k) ==
  IF k = 0 THEN {<<>>}
  ELSE {Append(s, c) : s \in SeqsOfLen(S, k - 1), c \in S}

ShortStrings == UNION {SeqsOfLen(InputChars, k) : k \in 0..MaxLen}

\* Emails passed to execute(): every short string, the registry's emails, an
\* unregistered well-formed one, and ones spoilt by white space, a second @,
\* a missing dot or an empty part.
EmailInputs ==
  ShortStrings \cup
  { TestEmail, AdminEmail, BadEmail,
    <<" ">> \o TestEmail, TestEmail \o <<" ">>,
    <<"t","e","s","t"," ","@","t",".","c">>,
    <<"a","@","b","@","c",".","d">>,
    <<"a","@","b","c">>,
    <<"@","t",".","c">>,
    <<"a","@",".","c">>,
    <<"a","@","b",".">> }

PasswordInputs == {"", "123456", "admin123"}

\* Keys passed to the storage adapters, as sequences of characters.
Keys == { <<"k">>, <<"b", "k">> }

\* The prefixes LocalStorageService adapters are constructed with: one is the
\* beginning of the other.
Prefixes == { <<"a">>, <<"a", "b">> }

\* LocalStorageService.buildKey: `${this.prefix}${key}`
buildKey(prefix, key) == prefix \o key

\* The keys of localStorage: what the adapters build, and one that carries
\* none of their prefixes.
BackingKeys ==
  {buildKey(prefix, key) : prefix \in Prefixes, key \in Keys} \cup { <<"z">> }

\* Tokens handed to SessionManager.startSession by callers other than execute().
ForeignToken == [uid |-> "x", rnd |-> 0]

\* ------------------------------------------------------------------ state

VARIABLES
  now,                \* Date.now()
  sessionDurationMs,  \* SessionManager.sessionDurationMs
  currentSession,     \* SessionManager.currentSession
  persisted,          \* the backing store's item under prefix + "session"
  validTokens,        \* AuthServiceImpl.validTokens
  isLoading,          \* LoginUserUseCase.isLoading
  pending,            \* the authenticate() call execute() is awaiting, or null
  authCalls,          \* number of authenticate() calls made so far
  registry,           \* the user objects of AuthServiceImpl.validUsers, as they
                      \* are now: registry[i] is validUsers[i].user
  generated,          \* number of tokens generateToken() has made so far
  refreshing,         \* the refreshToken() calls awaiting their network delay,
                      \* in the order they were made: [token |-> the argument,
                      \* overlaps |-> a call with the same token was awaiting
                      \* when this one was made]
  localStorage,       \* the items of the browser's localStorage other than the
                      \* session record: the text under each key, or null
  storage,            \* InMemoryStorageService.storage: what the Map holds under
                      \* each key, or null
  held,               \* the user object a caller keeps a reference to, or null:
                      \* [value |-> its properties, is |-> the objects of the
                      \* program it is identical to, via |-> the call that
                      \* handed it over]
  ret                 \* what the step just taken returned to the caller of
                      \* the use case: [op |-> "execute", value |-> a
                      \* LoginResult, or null while execute() is suspended],
                      \* [op |-> "resume", value |-> the LoginResult a suspended
                      \* execute() resolves to], [op |-> "logout", value |-> a
                      \* LogoutResult], or NoReturn

vars == <<now, sessionDurationMs, currentSession, persisted, validTokens,
          isLoading, pending, authCalls, registry, generated, refreshing,
          held, localStorage, storage, ret>>

NoReturn == [op |-> "none"]

\* ------------------------------------------------- LocalStorageService

\* The number NaN.
NotANumber == [nan |-> TRUE]

\* An object that refers to itself.
Circular == [circular |-> TRUE]

\* JSON.stringify throws for a value with a cycle.
stringifyThrows(value) == value = Circular

\* JSON.stringify of a value: the text it returns, [json |-> what the text
\* denotes]; undefined has no text and stringify returns undefined, NaN is
\* written as null.
stringify(value) ==
  IF value = undefined THEN undefined
  ELSE IF value = NotANumber THEN [json |-> null]
  ELSE [json |-> value]

\* localStorage.setItem(key, serialized) stores String(serialized).
setItem(serialized) ==
  IF serialized = undefined THEN [text |-> "undefined"] ELSE serialized

\* JSON.parse: the value of a well-formed text; any other text makes it throw,
\* which get() turns into null.
parse(item) == IF "json" \in DOMAIN item THEN item.json ELSE null

\* set that keeps the item a key already has.
StorageSetOnce(item, value, storeFails) ==
  IF storeFails \/ stringifyThrows(value) \/ item # null THEN item
  ELSE setItem(stringify(value))

\* LocalStorageService.set: what the item under the key becomes.  An error of
\* JSON.stringify or of the backing store is caught and logged, the item
\* stays as it was.
StorageSet(item, value, storeFails) ==
  IF storeFails \/ stringifyThrows(value) THEN item
  ELSE setItem(stringify(value))

\* LocalStorageService.get
StorageGet(item) == IF item = null THEN null ELSE parse(item)

\* key.startsWith(prefix)
startsWith(key, prefix) ==
  /\ Len(prefix) <= Len(key)
  /\ SubSeq(key, 1, Len(prefix)) = prefix

\* get(key) of the LocalStorageService constructed with prefix.
localGet(prefix, key) == StorageGet(localStorage[buildKey(prefix, key)])

\* clear that removes nothing.
localClearNone(prefix) == localStorage

\* LocalStorageService.clear of the adapter constructed with prefix:
\* localStorage after it.
localClear(prefix) ==
  [key \in BackingKeys |->
     IF startsWith(key, prefix) THEN null ELSE localStorage[key]]

\* ------------------------------------------------ InMemoryStorageService

\* InMemoryStorageService.set: what the Map holds under the key after it.
\* When JSON.stringify throws nothing is stored.
memorySet(entry, value) ==
  IF stringifyThrows(value) THEN entry ELSE stringify(value)

\* InMemoryStorageService.get: null for a missing or falsy entry, else the
\* parsed text.
memoryGet(key) ==
  IF storage[key] = null \/ storage[key] = undefined THEN null
  ELSE parse(storage[key])

\* ------------------------------------------------------- SessionManager

\* {...user}: a new object with the properties of user; of undefined, an
\* object with none.
CopyUser(user) ==
  IF user = undefined THEN <<>> ELSE [f \in DOMAIN user |-> user[f]]

isExpired ==
  IF currentSession = null THEN TRUE
  ELSE now > currentSession.expiresAt

getSession ==
  IF currentSession = null \/ isExpired THEN null
  ELSE [user |-> CopyUser(currentSession.user), token |-> currentSession.token]

getUser ==
  LET session == getSession
  IN IF session # null THEN CopyUser(session.user) ELSE null

\* this.currentSession?.token ?? null
getToken ==
  IF currentSession = null THEN null
  ELSE IF currentSession.token = undefined THEN null
  ELSE currentSession.token

isActive == currentSession # null /\ ~isExpired

\* getTimeRemaining without Math.max.
getTimeRemainingRaw ==
  IF currentSession = null THEN 0
  ELSE currentSession.expiresAt - now

getTimeRemaining ==
  IF currentSession = null THEN 0
  ELSE LET remaining == currentSession.expiresAt - now
       IN IF remaining > 0 THEN remaining ELSE 0

\* The SessionState startSession builds.
NewSession(user, token) ==
  [user |-> CopyUser(user), token |-> token,
   createdAt |-> now, expiresAt |-> now + sessionDurationMs]

\* startSession that merges into the session it finds: createdAt survives.
startSessionMerge(user, token, storeFails) ==
  LET merged == IF currentSession = null THEN NewSession(user, token)
                ELSE [NewSession(user, token) EXCEPT !.createdAt = currentSession.createdAt]
  IN /\ currentSession' = merged
     /\ persisted' = StorageSet(persisted, merged, storeFails)

\* SessionManager.startSession over a store whose write succeeds or fails.
startSession(user, token, storeFails) ==
  /\ currentSession' = NewSession(user, token)
  /\ persisted' = StorageSet(persisted, NewSession(user, token), storeFails)

\* endSession that leaves the persisted record in place.
endSessionKeepsRecord(removeThrows) ==
  /\ currentSession' = null
  /\ persisted' = persisted

\* SessionManager.endSession; removeThrows: the backing store's removeItem
\* throws, after the in-memory session has been cleared.
endSession(removeThrows) ==
  /\ currentSession' = null
  /\ persisted' = IF removeThrows THEN persisted ELSE null

\* extendSession that keeps the new expiry in memory only.
extendSessionMemoryOnly(storeFails) ==
  IF currentSession # null /\ ~isExpired
  THEN /\ currentSession' = [currentSession EXCEPT !.expiresAt = now + sessionDurationMs]
       /\ persisted' = persisted
  ELSE UNCHANGED <<currentSession, persisted>>

\* extendSession without the expiry test.
extendSessionAlways(storeFails) ==
  IF currentSession # null
  THEN LET extended == [currentSession EXCEPT !.expiresAt = now + sessionDurationMs]
       IN /\ currentSession' = extended
          /\ persisted' = StorageSet(persisted, extended, storeFails)
  ELSE UNCHANGED <<currentSession, persisted>>

\* SessionManager.extendSession
extendSession(storeFails) ==
  IF currentSession # null /\ ~isExpired
  THEN LET extended == [currentSession EXCEPT !.expiresAt = now + sessionDurationMs]
       IN /\ currentSession' = extended
          /\ persisted' = StorageSet(persisted, extended, storeFails)
  ELSE UNCHANGED <<currentSession, persisted>>

\* SessionManager.restoreSession, run by the constructor.
restoreSession ==
  LET stored == StorageGet(persisted)
  IN IF stored # null /\ stored.expiresAt > now
     THEN /\ currentSession' = stored
          /\ persisted' = persisted
     ELSE /\ currentSession' = null
          /\ persisted' = IF stored # null THEN null ELSE persisted

\* ------------------------------------------------------- AuthServiceImpl

\* AuthServiceImpl.validUsers: the credentials are fixed, the user objects are
\* the ones in the registry.
validUsers ==
  << [email |-> TestEmail, password |-> "123456", user |-> registry[1]],
     [email |-> AdminEmail, password |-> "admin123", user |-> registry[2]] >>

findValidUser(email, password) ==
  LET hits == {i \in 1..Len(validUsers) :
                 validUsers[i].email = email /\ validUsers[i].password = password}
  IN IF hits = {} THEN null
     ELSE validUsers[CHOOSE i \in hits : \A j \in hits : i <= j]

\* `token_${userId}_${timestamp}_${random}`.  The random suffix of the n-th
\* token is n, so that no two calls draw the same; the timestamp, which only
\* adds to the uniqueness, is left out.
generateToken(userId) == [uid |-> userId, rnd |-> generated]

\* authenticate that issues a token whether or not the credentials match.
authenticateIssuesAlways(email, password) ==
  LET validUser == findValidUser(email, password)
      token == generateToken("0")
  IN [result |-> IF validUser = null
                 THEN [success |-> FALSE, error |-> "Credenciales inválidas"]
                 ELSE [success |-> TRUE, user |-> validUser.user, token |-> token],
      validTokens |-> validTokens \cup {token},
      generated |-> generated + 1]

\* AuthServiceImpl.authenticate: the AuthResult, and the valid-token set and
\* the number of generated tokens after it.
authenticate(email, password) ==
  IF email = <<>> \/ password = ""
  THEN [result |-> [success |-> FALSE, error |-> "Email y contraseña son requeridos"],
        validTokens |-> validTokens, generated |-> generated]
  ELSE LET validUser == findValidUser(email, password)
       IN IF validUser = null
          THEN [result |-> [success |-> FALSE, error |-> "Credenciales inválidas"],
                validTokens |-> validTokens, generated |-> generated]
          ELSE LET token == generateToken(validUser.user.id)
               IN [result |-> [success |-> TRUE, user |-> validUser.user, token |-> token],
                   validTokens |-> validTokens \cup {token},
                   generated |-> generated + 1]

\* validateToken that accepts every token.
validateTokenAny(token) == TRUE

\* AuthServiceImpl.validateToken, once its delay is over.
validateToken(token) == token \in validTokens

\* refreshToken that leaves the old token valid.
refreshTokenKeepsOld(token) ==
  IF token \notin validTokens
  THEN [result |-> null, validTokens |-> validTokens, generated |-> generated]
  ELSE [result |-> generateToken("refreshed"),
        validTokens |-> validTokens \cup {generateToken("refreshed")},
        generated |-> generated + 1]

\* AuthServiceImpl.refreshToken, once its delay is over: the token it returns
\* or null, and the valid-token set and the number of generated tokens after
\* it.  Nothing else runs between its test, its delete and its add.
refreshToken(token) ==
  IF token \notin validTokens
  THEN [result |-> null, validTokens |-> validTokens, generated |-> generated]
  ELSE [result |-> generateToken("refreshed"),
        validTokens |-> (validTokens \ {token}) \cup {generateToken("refreshed")},
        generated |-> generated + 1]

\* ----------------------------------------------------- LoginUserUseCase

IsSpace(c) == c = " "

\* String.prototype.trim
trim(s) ==
  LET kept == {i \in 1..Len(s) : ~IsSpace(s[i])}
  IN IF kept = {} THEN <<>>
     ELSE SubSeq(s, CHOOSE i \in kept : \A j \in kept : i <= j,
                    CHOOSE i \in kept : \A j \in kept : j <= i)

\* [^\s@]+ matches s[from..to]
PlainRun(s, from, to) ==
  /\ from <= to
  /\ \A i \in from..to : ~IsSpace(s[i]) /\ s[i] # "@"

\* /^[^\s@]+@[^\s@]+\.[^\s@]+$/.test(email)
emailRegexTest(email) ==
  \E at \in 1..Len(email), dot \in 1..Len(email) :
    /\ email[at] = "@"
    /\ email[dot] = "."
    /\ PlainRun(email, 1, at - 1)
    /\ PlainRun(email, at + 1, dot - 1)
    /\ PlainRun(email, dot + 1, Len(email))

\* validateInput without the format test.
validateInputNoFormat(email, password) ==
  IF trim(email) = <<>> THEN "El email es requerido"
  ELSE IF password = "" THEN "La contraseña es requerida"
  ELSE ""

\* LoginUserUseCase.validateInput; "" stands for the null it returns when the
\* input is accepted (execute() only tests the result for truthiness).
validateInput(email, password) ==
  IF trim(email) = <<>> THEN "El email es requerido"
  ELSE IF password = "" THEN "La contraseña es requerida"
  ELSE IF ~emailRegexTest(email) THEN "Formato de email inválido"
  ELSE ""

\* catchMessage without the instanceof test.
catchMessageUnknown(thrown) == "Error desconocido durante el login"

\* A thrown value: an Error with a message, or any other value.
catchMessage(thrown) ==
  IF thrown.isError THEN thrown.message
  ELSE "Error desconocido durante el login"

\* validateInput on every input the callers try.
validation ==
  [email \in EmailInputs |->
     [password \in PasswordInputs |-> validateInput(email, password)]]

\* executeCall without the in-progress guard.
executeCallUnguarded(email, password) ==
  IF validation[email][password] # ""
  THEN /\ ret' = [op |-> "execute",
                  value |-> [success |-> FALSE, error |-> validation[email][password]]]
       /\ isLoading' = FALSE
       /\ UNCHANGED <<pending, authCalls>>
  ELSE /\ authCalls < MaxCalls
       /\ isLoading' = TRUE
       /\ pending' = [email |-> email, password |-> password]
       /\ authCalls' = authCalls + 1
       /\ ret' = [op |-> "execute", value |-> null]

\* execute() up to its await: the in-progress guard, the validation, the call
\* of authenticate().  Callers stop issuing well-formed logins after MaxCalls.
executeCall(email, password) ==
  IF isLoading
  THEN /\ ret' = [op |-> "execute",
                  value |-> [success |-> FALSE, error |-> "Login en progreso"]]
       /\ UNCHANGED <<isLoading, pending, authCalls>>
  ELSE IF validation[email][password] # ""
  THEN /\ ret' = [op |-> "execute",
                  value |-> [success |-> FALSE, error |-> validation[email][password]]]
       /\ isLoading' = FALSE
       /\ UNCHANGED <<pending, authCalls>>
  ELSE /\ authCalls < MaxCalls
       /\ isLoading' = TRUE
       /\ pending' = [email |-> email, password |-> password]
       /\ authCalls' = authCalls + 1
       /\ ret' = [op |-> "execute", value |-> null]

\* The catch block of execute().
catchBlock(thrown) == [success |-> FALSE, error |-> catchMessage(thrown)]

\* executeResume that reports success without starting the session.
executeResumeNoSession(auth, sessionThrows) ==
  /\ IF auth.rejected
     THEN ret' = [op |-> "resume", value |-> catchBlock(auth.thrown)]
     ELSE IF ~auth.result.success
     THEN ret' = [op |-> "resume",
                  value |-> [success |-> FALSE, error |-> auth.result.error]]
     ELSE ret' = [op |-> "resume",
                  value |-> [success |-> TRUE, user |-> auth.result.user]]
  /\ UNCHANGED <<currentSession, persisted>>
  /\ isLoading' = FALSE
  /\ pending' = null

\* executeResume that ends the session when the Authenticator fails.
executeResumeEndsSession(auth, sessionThrows) ==
  /\ IF auth.rejected
     THEN /\ ret' = [op |-> "resume", value |-> catchBlock(auth.thrown)]
          /\ UNCHANGED <<currentSession, persisted>>
     ELSE IF ~auth.result.success
     THEN /\ ret' = [op |-> "resume",
                     value |-> [success |-> FALSE, error |-> auth.result.error]]
          /\ endSession(FALSE)
     ELSE /\ startSession(auth.result.user, auth.result.token, sessionThrows # null)
          /\ ret' = [op |-> "resume",
                     value |-> IF sessionThrows # null THEN catchBlock(sessionThrows)
                               ELSE [success |-> TRUE, user |-> auth.result.user]]
  /\ isLoading' = FALSE
  /\ pending' = null

\* executeResume whose catch path leaves the in-progress flag set (no finally).
executeResumeNoFinally(auth, sessionThrows) ==
  /\ IF auth.rejected
     THEN /\ ret' = [op |-> "resume", value |-> catchBlock(auth.thrown)]
          /\ UNCHANGED <<currentSession, persisted>>
     ELSE IF ~auth.result.success
     THEN /\ ret' = [op |-> "resume",
                     value |-> [success |-> FALSE, error |-> auth.result.error]]
          /\ UNCHANGED <<currentSession, persisted>>
     ELSE /\ startSession(auth.result.user, auth.result.token, sessionThrows # null)
          /\ ret' = [op |-> "resume",
                     value |-> IF sessionThrows # null THEN catchBlock(sessionThrows)
                               ELSE [success |-> TRUE, user |-> auth.result.user]]
  /\ isLoading' = (auth.rejected \/ (auth.result.success /\ sessionThrows # null))
  /\ pending' = null

\* execute() from the end of its await to its return.  auth is what the
\* awaited authenticate() did: [rejected |-> FALSE, result |-> an AuthResult]
\* or [rejected |-> TRUE, thrown |-> a value]; sessionThrows is null, or the
\* value startSession throws, which it does once its store write fails.
executeResume(auth, sessionThrows) ==
  /\ IF auth.rejected
     THEN /\ ret' = [op |-> "resume", value |-> catchBlock(auth.thrown)]
          /\ UNCHANGED <<currentSession, persisted>>
     ELSE IF ~auth.result.success
     THEN /\ ret' = [op |-> "resume",
                     value |-> [success |-> FALSE, error |-> auth.result.error]]
          /\ UNCHANGED <<currentSession, persisted>>
     ELSE IF sessionThrows # null
     THEN /\ startSession(auth.result.user, auth.result.token, TRUE)
          /\ ret' = [op |-> "resume", value |-> catchBlock(sessionThrows)]
     ELSE /\ startSession(auth.result.user, auth.result.token, FALSE)
          /\ ret' = [op |-> "resume",
                     value |-> [success |-> TRUE, user |-> auth.result.user]]
  /\ isLoading' = FALSE
  /\ pending' = null

\* logout that reports success without ending the session.
logoutKeepsSession(endThrows) ==
  /\ UNCHANGED <<currentSession, persisted>>
  /\ ret' = [op |-> "logout", value |-> [success |-> TRUE]]

\* LoginUserUseCase.logout; endThrows: endSession throws.
logout(endThrows) ==
  /\ endSession(endThrows)
  /\ ret' = [op |-> "logout", value |-> [success |-> ~endThrows]]

\* getAuthState that never reports a login in progress.
getAuthStateIdle ==
  LET session == getSession
  IN [isAuthenticated |-> isActive,
      user |-> IF session # null THEN session.user ELSE null,
      isLoading |-> FALSE]

\* LoginUserUseCase.getAuthState
getAuthState ==
  LET session == getSession
  IN [isAuthenticated |-> isActive,
      user |-> IF session # null THEN session.user ELSE null,
      isLoading |-> isLoading]

\* -------------------------------------------------------------- actions

\* A caller invokes execute(email, password).
Execute(email, password) ==
  /\ executeCall(email, password)
  /\ UNCHANGED <<localStorage, storage, now, sessionDurationMs, currentSession, persisted, validTokens>>
  /\ UNCHANGED <<registry, generated, refreshing, held>>

\* The simulated network delay ends: authenticate() finishes and execute()
\* runs to its end.
AuthenticateResolves ==
  /\ pending # null
  /\ validTokens' = authenticate(pending.email, pending.password).validTokens
  /\ executeResume([rejected |-> FALSE,
                    result |-> authenticate(pending.email, pending.password).result],
                   null)
  /\ generated' = authenticate(pending.email, pending.password).generated
  /\ UNCHANGED <<localStorage, storage, now, sessionDurationMs, authCalls, registry, refreshing, held>>

\* logout() that also empties the Authenticator's valid-token set.
LogoutRevokes ==
  /\ logout(FALSE)
  /\ validTokens' = {}
  /\ UNCHANGED <<localStorage, storage, now, sessionDurationMs, isLoading, pending,
                 authCalls, registry, generated, refreshing, held>>

\* A caller invokes logout().
Logout ==
  /\ logout(FALSE)
  /\ UNCHANGED <<localStorage, storage, now, sessionDurationMs, validTokens, isLoading, pending, authCalls>>
  /\ UNCHANGED <<registry, generated, refreshing, held>>

\* Direct calls of the Session Manager.
StartSession(user, token) ==
  /\ startSession(user, token, FALSE)
  /\ UNCHANGED <<localStorage, storage, now, sessionDurationMs, validTokens, isLoading, pending, authCalls>>
  /\ UNCHANGED <<registry, generated, refreshing, held>>
  /\ ret' = NoReturn

\* endSession() returns nothing; repeated tells that the call before it was
\* an endSession() as well.
EndSession ==
  /\ endSession(FALSE)
  /\ UNCHANGED <<localStorage, storage, now, sessionDurationMs, validTokens, isLoading, pending, authCalls>>
  /\ UNCHANGED <<registry, generated, refreshing, held>>
  /\ ret' = [op |-> "endSession", repeated |-> (ret.op = "endSession")]

ExtendSession ==
  /\ extendSession(FALSE)
  /\ UNCHANGED <<localStorage, storage, now, sessionDurationMs, validTokens, isLoading, pending, authCalls>>
  /\ UNCHANGED <<registry, generated, refreshing, held>>
  /\ ret' = NoReturn

\* The clock advances.
Tick ==
  /\ now < MaxNow
  /\ now' = now + 1
  /\ ret' = NoReturn
  /\ UNCHANGED <<localStorage, storage, sessionDurationMs, currentSession,
                 persisted, validTokens, isLoading, pending, authCalls>>
  /\ UNCHANGED <<registry, generated, refreshing, held>>

\* The application is loaded again: createLoginUseCase builds a new
\* Authenticator, a new Session Manager over the same store and a new use case.
\* Nothing of the page that was left survives but the store.
Reload ==
  /\ pending = null
  /\ refreshing = <<>>
  /\ restoreSession
  /\ validTokens' = {}
  /\ registry' = <<TestUser, AdminUser>>
  /\ held' = null
  /\ isLoading' = FALSE
  /\ ret' = NoReturn
  /\ UNCHANGED <<localStorage, storage, now, sessionDurationMs, pending, authCalls, generated, refreshing>>

\* new SessionManager(storage, sessionDurationHours) over an empty store,
\* new AuthServiceImpl(), new LoginUserUseCase(authService, sessionManager).
Construct(sessionDurationHours) ==
  /\ now = 0
  /\ sessionDurationMs = sessionDurationHours * MsPerHour
  /\ currentSession = null
  /\ persisted = null
  /\ validTokens = {}
  /\ isLoading = FALSE
  /\ pending = null
  /\ authCalls = 0
  /\ registry = <<TestUser, AdminUser>>
  /\ generated = 0
  /\ refreshing = <<>>
  /\ held = null
  /\ localStorage = [key \in BackingKeys |-> null]
  /\ storage = [key \in Keys |-> null]
  /\ ret = NoReturn

Init == \E hours \in 1..MaxHours : Construct(hours)

Next ==
  \/ \E email \in EmailInputs, password \in PasswordInputs : Execute(email, password)
  \/ AuthenticateResolves
  \/ Logout
  \/ \E user \in Users : StartSession(user, ForeignToken)
  \/ EndSession
  \/ ExtendSession
  \/ Tick
  \/ Reload

Spec == Init /\ [][Next]_vars

\* ------------------------------------------- collaborators that throw

\* What a collaborator may throw: an Error, or a value that is no Error.
Thrown ==
  { [isError |-> TRUE, message |-> "Network down"],
    [isError |-> FALSE, message |-> "Network down"] }

\* An AuthService whose authenticate() rejects.
AuthenticateRejects(thrown) ==
  /\ pending # null
  /\ executeResume([rejected |-> TRUE, thrown |-> thrown], null)
  /\ UNCHANGED <<localStorage, storage, now, sessionDurationMs, validTokens, authCalls>>
  /\ UNCHANGED <<registry, generated, refreshing, held>>

\* authenticate() succeeds and startSession throws: the Session Manager holds
\* the new session by then, the store does not.
StartSessionThrows(thrown) ==
  /\ pending # null
  /\ authenticate(pending.email, pending.password).result.success
  /\ validTokens' = authenticate(pending.email, pending.password).validTokens
  /\ executeResume([rejected |-> FALSE,
                    result |-> authenticate(pending.email, pending.password).result],
                   thrown)
  /\ generated' = authenticate(pending.email, pending.password).generated
  /\ UNCHANGED <<localStorage, storage, now, sessionDurationMs, authCalls, registry, refreshing, held>>

\* logout() over a store whose removeItem throws.
LogoutThrows ==
  /\ logout(TRUE)
  /\ UNCHANGED <<localStorage, storage, now, sessionDurationMs, validTokens, isLoading, pending, authCalls>>
  /\ UNCHANGED <<registry, generated, refreshing, held>>

NextFaulty ==
  \/ Next
  \/ \E thrown \in Thrown : AuthenticateRejects(thrown)
  \/ \E thrown \in Thrown : StartSessionThrows(thrown)
  \/ LogoutThrows

SpecFaulty == Init /\ [][NextFaulty]_vars

\* The awaited authenticate() settles: it resolves, it rejects, or it
\* resolves and startSession throws.
Settle ==
  \/ AuthenticateResolves
  \/ \E thrown \in Thrown : AuthenticateRejects(thrown)
  \/ \E thrown \in Thrown : StartSessionThrows(thrown)

\* The simulated network delay is a timer, and a timer always fires.
FairSpecFaulty == SpecFaulty /\ WF_vars(Settle)

\* ------------------------------------ any duration the constructor takes

InitAnyDuration == \E hours \in (0 - 1)..MaxHours : Construct(hours)

SpecAnyDuration == InitAnyDuration /\ [][Next]_vars

\* ------------------------------------- a store that others write as well

\* An expiry time no clock of the model reaches.
FarFuture == MaxNow + 1

\* Items another writer of the backing store leaves under the session key: a
\* text that is no JSON, the JSON text null, and the JSON text of an object
\* that has an expiresAt and none of a SessionState's other fields.
ForeignItems ==
  { [text |-> "{oops"],
    stringify(null),
    stringify([user |-> undefined, token |-> undefined, createdAt |-> undefined,
               expiresAt |-> FarFuture]) }

\* The item under the session key is overwritten from outside the program.
ForeignWrite(item) ==
  /\ persisted' = item
  /\ ret' = NoReturn
  /\ UNCHANGED <<localStorage, storage, now, sessionDurationMs, currentSession, validTokens, isLoading,
                 pending, authCalls, registry, generated, refreshing, held>>

NextStore ==
  \/ Next
  \/ \E item \in ForeignItems : ForeignWrite(item)

SpecStore == Init /\ [][NextStore]_vars

\* ------------------------------------------ the Authenticator used directly

\* Credentials passed to authenticate() directly: an empty email, an empty
\* password, a registered pair, an unregistered email, a wrong password.
DirectCredentials ==
  { [email |-> <<>>, password |-> "123456"],
    [email |-> TestEmail, password |-> ""],
    [email |-> TestEmail, password |-> "123456"],
    [email |-> BadEmail, password |-> "123456"],
    [email |-> TestEmail, password |-> "admin123"] }

\* Credentials passed to execute() while the Authenticator is also used directly.
LoginCredentials ==
  { [email |-> TestEmail, password |-> "123456"],
    [email |-> BadEmail, password |-> "123456"] }

\* Tokens passed to validateToken() and refreshToken(): the foreign one and
\* every token that generateToken() could have made by now for the logins
\* and refreshes tried here.
TokenInputs ==
  {ForeignToken} \cup
  [uid : {"1", "refreshed"}, rnd : 0..(generated - 1)]

\* authenticate(email, password) called directly, from its call to its return.
Authenticate(email, password) ==
  /\ authenticate(email, password).result.success => generated < MaxTokens
  /\ validTokens' = authenticate(email, password).validTokens
  /\ generated' = authenticate(email, password).generated
  /\ ret' = [op |-> "authenticate", email |-> email, password |-> password,
              value |-> authenticate(email, password).result]
  /\ UNCHANGED <<localStorage, storage, now, sessionDurationMs, currentSession, persisted, isLoading,
                 pending, authCalls, registry, refreshing, held>>

\* validateToken(token), from its call to its return.
ValidateToken(token) ==
  /\ ret' = [op |-> "validateToken", token |-> token, value |-> validateToken(token)]
  /\ UNCHANGED <<localStorage, storage, now, sessionDurationMs, currentSession, persisted, validTokens,
                 isLoading, pending, authCalls, registry, generated, refreshing, held>>

\* A caller invokes refreshToken(token); the call awaits its delay.
RefreshToken(token) ==
  /\ Len(refreshing) < MaxRefreshing
  /\ generated + Len(refreshing) < MaxTokens
  /\ refreshing' = Append(refreshing,
                          [token |-> token,
                           overlaps |-> \E i \in 1..Len(refreshing) :
                                          refreshing[i].token = token])
  /\ ret' = NoReturn
  /\ UNCHANGED <<localStorage, storage, now, sessionDurationMs, currentSession, persisted, validTokens,
                 isLoading, pending, authCalls, registry, generated, held>>

\* The delay of the oldest awaiting refreshToken() call ends (timers of equal
\* delay fire in the order they were set) and the call runs to its return.
RefreshResolves ==
  /\ refreshing # <<>>
  /\ validTokens' = refreshToken(Head(refreshing).token).validTokens
  /\ generated' = refreshToken(Head(refreshing).token).generated
  /\ refreshing' = Tail(refreshing)
  /\ ret' = [op |-> "refreshToken", token |-> Head(refreshing).token,
              overlapped |-> Head(refreshing).overlaps,
              value |-> refreshToken(Head(refreshing).token).result]
  /\ UNCHANGED <<localStorage, storage, now, sessionDurationMs, currentSession, persisted, isLoading,
                 pending, authCalls, registry, held>>

\* The Authenticator, used through the use case and directly.
NextAuth ==
  \/ \E c \in LoginCredentials : Execute(c.email, c.password)
  \/ AuthenticateResolves
  \/ Reload
  \/ \E c \in DirectCredentials : Authenticate(c.email, c.password)
  \/ \E token \in TokenInputs : ValidateToken(token)
  \/ \E token \in TokenInputs : RefreshToken(token)
  \/ RefreshResolves

SpecAuth == Init /\ [][NextAuth]_vars

\* The use case, the clock and the Authenticator's token operations together.
NextSessionTokens ==
  \/ \E c \in LoginCredentials : Execute(c.email, c.password)
  \/ AuthenticateResolves
  \/ Logout
  \/ EndSession
  \/ Tick
  \/ Reload
  \/ \E token \in TokenInputs : ValidateToken(token)
  \/ \E token \in TokenInputs : RefreshToken(token)
  \/ RefreshResolves

SpecSessionTokens == Init /\ [][NextSessionTokens]_vars

\* ------------------------------------------- objects and their references

\* An object is [id |-> which object it is, value |-> its properties]: "new"
\* for one just created, "held" for the caller's, and the names below for the
\* two kinds of objects the program keeps.
SessionUser == "currentSession.user"

RegistryUser(i) == IF i = 1 THEN "validUsers[0].user" ELSE "validUsers[1].user"

\* A reference handed on as it is, where the code spreads.
SpreadShared(object) == object

\* { ...object }: a new object with the same properties.
Spread(object) == [id |-> "new", value |-> CopyUser(object.value)]

\* this.currentSession.user
sessionUserObject == [id |-> SessionUser, value |-> currentSession.user]

\* The user object of the value getSession() returns.
getSessionUserObject == Spread(sessionUserObject)

\* The object getUser() returns: a copy of getSession()'s copy.
getUserObject == Spread(getSessionUserObject)

\* The user object of a successful AuthResult, validUser.user, which execute()
\* puts into its LoginResult as it is.
resultUserObject(user) ==
  LET i == CHOOSE j \in 1..Len(registry) : registry[j].id = user.id
  IN [id |-> RegistryUser(i), value |-> registry[i]]

\* The object startSession(user, token) stores as currentSession.user.
storedUserObject(object) == Spread(object)

\* The caller's own view of an object it is handed.
Receive(object, via) ==
  [value |-> object.value,
   is |-> IF object.id = "new" THEN {} ELSE {object.id},
   via |-> via]

\* Names a caller writes into a user object.
OtherNames == {"Mallory"}

\* The caller keeps the user of the value getSession() returns.
CallerGetsSession ==
  /\ getSession # null
  /\ held' = Receive(getSessionUserObject, "getSession")
  /\ ret' = NoReturn
  /\ UNCHANGED <<localStorage, storage, now, sessionDurationMs, currentSession, persisted, validTokens,
                 isLoading, pending, authCalls, registry, generated, refreshing>>

\* The caller keeps what getUser() returns.
CallerGetsUser ==
  /\ getUser # null
  /\ held' = Receive(getUserObject, "getUser")
  /\ ret' = NoReturn
  /\ UNCHANGED <<localStorage, storage, now, sessionDurationMs, currentSession, persisted, validTokens,
                 isLoading, pending, authCalls, registry, generated, refreshing>>

\* The caller keeps the user of the LoginResult execute() has just resolved to.
CallerKeepsLoginUser ==
  /\ ret.op = "resume"
  /\ ret.value.success
  /\ held' = Receive(resultUserObject(ret.value.user), "execute")
  /\ ret' = NoReturn
  /\ UNCHANGED <<localStorage, storage, now, sessionDurationMs, currentSession, persisted, validTokens,
                 isLoading, pending, authCalls, registry, generated, refreshing>>

\* The caller builds a user object and starts a session with it, keeping the
\* object.  It is the session's own object if startSession stored it as it is.
CallerStartsSession(user) ==
  /\ startSession(user, ForeignToken, FALSE)
  /\ held' = [value |-> user,
               is |-> IF storedUserObject([id |-> "held", value |-> user]).id = "held"
                      THEN {SessionUser} ELSE {},
               via |-> "startSession"]
  /\ ret' = NoReturn
  /\ UNCHANGED <<localStorage, storage, now, sessionDurationMs, validTokens, isLoading, pending,
                 authCalls, registry, generated, refreshing>>

\* The caller assigns to the name of the object it keeps: every object that
\* is this very object changes with it.  The persisted record is a text.
CallerMutates(name) ==
  /\ held # null
  /\ held.value.name # name
  /\ held' = [held EXCEPT !.value.name = name]
  /\ currentSession' = IF SessionUser \in held.is
                        THEN [currentSession EXCEPT !.user.name = name]
                        ELSE currentSession
  /\ registry' = [i \in 1..Len(registry) |->
                    IF RegistryUser(i) \in held.is
                    THEN [registry[i] EXCEPT !.name = name]
                    ELSE registry[i]]
  /\ ret' = NoReturn
  /\ UNCHANGED <<localStorage, storage, now, sessionDurationMs, persisted, validTokens, isLoading,
                 pending, authCalls, generated, refreshing>>

\* The use case, the Session Manager and a caller that keeps and changes the
\* objects it is handed; the logins are those of LoginCredentials.
NextAliasing ==
  \/ \E c \in LoginCredentials : Execute(c.email, c.password)
  \/ AuthenticateResolves
  \/ Logout
  \/ \E user \in Users : StartSession(user, ForeignToken)
  \/ EndSession
  \/ ExtendSession
  \/ Tick
  \/ Reload
  \/ CallerGetsSession
  \/ CallerGetsUser
  \/ CallerKeepsLoginUser
  \/ \E user \in Users : CallerStartsSession(user)
  \/ \E name \in OtherNames : CallerMutates(name)

SpecAliasing == Init /\ [][NextAliasing]_vars

\* ------------------------------------------- a store that fails on writes

\* Direct calls of the Session Manager over a LocalStorageService whose
\* localStorage throws from setItem and from removeItem.  set() catches the
\* error; remove() has no try/catch and endSession() lets the error through
\* after it has cleared the session in memory.
StartSessionStoreFails(user, token) ==
  /\ startSession(user, token, TRUE)
  /\ ret' = [op |-> "startSession", threw |-> FALSE]
  /\ UNCHANGED <<localStorage, storage, now, sessionDurationMs, validTokens,
                 isLoading, pending, authCalls, registry, generated, refreshing,
                 held>>

ExtendSessionStoreFails ==
  /\ extendSession(TRUE)
  /\ ret' = [op |-> "extendSession", threw |-> FALSE]
  /\ UNCHANGED <<localStorage, storage, now, sessionDurationMs, validTokens,
                 isLoading, pending, authCalls, registry, generated, refreshing,
                 held>>

EndSessionStoreFails ==
  /\ endSession(TRUE)
  /\ ret' = [op |-> "endSession", repeated |-> (ret.op = "endSession"),
              threw |-> TRUE]
  /\ UNCHANGED <<localStorage, storage, now, sessionDurationMs, validTokens,
                 isLoading, pending, authCalls, registry, generated, refreshing,
                 held>>

NextFailingStore ==
  \/ Next
  \/ \E user \in Users : StartSessionStoreFails(user, ForeignToken)
  \/ ExtendSessionStoreFails
  \/ EndSessionStoreFails

SpecFailingStore == Init /\ [][NextFailingStore]_vars

\* ------------------------------------------------------ reading the state

\* A caller invokes getAuthState().
GetAuthState ==
  /\ ret' = [op |-> "getAuthState", value |-> getAuthState]
  /\ UNCHANGED <<localStorage, storage, now, sessionDurationMs, currentSession,
                 persisted, validTokens, isLoading, pending, authCalls, registry,
                 generated, refreshing, held>>

\* getAuthState() reads getSession() and then isActive(); each of them calls
\* Date.now(), and here the clock advances between the two.
GetAuthStateAcrossTick ==
  /\ now < MaxNow
  /\ now' = now + 1
  /\ UNCHANGED <<localStorage, storage, sessionDurationMs, currentSession,
                 persisted, validTokens, isLoading, pending, authCalls, registry,
                 generated, refreshing, held>>
  /\ ret' = [op |-> "getAuthState",
              value |-> [isAuthenticated |-> isActive',
                         user |-> getAuthState.user,
                         isLoading |-> isLoading]]

NextReads ==
  \/ NextFaulty
  \/ GetAuthState
  \/ GetAuthStateAcrossTick

SpecReads == Init /\ [][NextReads]_vars

\* What restoreSession decides for the stored record: keep it.
restores ==
  LET stored == StorageGet(persisted)
  IN stored # null /\ stored.expiresAt > now

\* ---------------------------------------------------- the storage adapters

\* Values handed to set(): two that JSON can write, undefined, NaN and a
\* value with a cycle.
StoredValues ==
  { [num |-> 1], [num |-> 2], undefined, NotANumber, Circular }

\* Texts written to localStorage by code other than the adapters.
ForeignTexts == { [text |-> "{oops"], stringify([num |-> 1]) }

\* set(key, value) on the LocalStorageService constructed with prefix.
LocalSet(prefix, key, value) ==
  /\ localStorage' = [localStorage EXCEPT
                        ![buildKey(prefix, key)] = StorageSet(@, value, FALSE)]
  /\ ret' = NoReturn
  /\ UNCHANGED <<storage, now, sessionDurationMs, currentSession, persisted,
                 validTokens, isLoading, pending, authCalls, registry, generated,
                 refreshing, held>>

\* remove(key)
LocalRemove(prefix, key) ==
  /\ localStorage' = [localStorage EXCEPT ![buildKey(prefix, key)] = null]
  /\ ret' = NoReturn
  /\ UNCHANGED <<storage, now, sessionDurationMs, currentSession, persisted,
                 validTokens, isLoading, pending, authCalls, registry, generated,
                 refreshing, held>>

\* clear()
LocalClear(prefix) ==
  /\ localStorage' = localClear(prefix)
  /\ ret' = NoReturn
  /\ UNCHANGED <<storage, now, sessionDurationMs, currentSession, persisted,
                 validTokens, isLoading, pending, authCalls, registry, generated,
                 refreshing, held>>

\* get(key)
LocalGet(prefix, key) ==
  /\ ret' = [op |-> "get", prefix |-> prefix, key |-> key,
              value |-> localGet(prefix, key)]
  /\ UNCHANGED <<localStorage, storage, now, sessionDurationMs, currentSession,
                 persisted, validTokens, isLoading, pending, authCalls, registry,
                 generated, refreshing, held>>

\* Other code of the page writes an item into localStorage.
ForeignSetItem(key, text) ==
  /\ localStorage' = [localStorage EXCEPT ![key] = text]
  /\ ret' = NoReturn
  /\ UNCHANGED <<storage, now, sessionDurationMs, currentSession, persisted,
                 validTokens, isLoading, pending, authCalls, registry, generated,
                 refreshing, held>>

\* The operations of an InMemoryStorageService.
MemorySet(key, value) ==
  /\ storage' = [storage EXCEPT ![key] = memorySet(@, value)]
  /\ ret' = NoReturn
  /\ UNCHANGED <<localStorage, now, sessionDurationMs, currentSession, persisted,
                 validTokens, isLoading, pending, authCalls, registry, generated,
                 refreshing, held>>

MemoryRemove(key) ==
  /\ storage' = [storage EXCEPT ![key] = null]
  /\ ret' = NoReturn
  /\ UNCHANGED <<localStorage, now, sessionDurationMs, currentSession, persisted,
                 validTokens, isLoading, pending, authCalls, registry, generated,
                 refreshing, held>>

MemoryClear ==
  /\ storage' = [key \in Keys |-> null]
  /\ ret' = NoReturn
  /\ UNCHANGED <<localStorage, now, sessionDurationMs, currentSession, persisted,
                 validTokens, isLoading, pending, authCalls, registry, generated,
                 refreshing, held>>

MemoryGet(key) ==
  /\ ret' = [op |-> "memory get", key |-> key, value |-> memoryGet(key)]
  /\ UNCHANGED <<localStorage, storage, now, sessionDurationMs, currentSession,
                 persisted, validTokens, isLoading, pending, authCalls, registry,
                 generated, refreshing, held>>

\* Two LocalStorageService adapters and other code over one localStorage.
NextStores ==
  \/ \E prefix \in Prefixes, key \in Keys, value \in StoredValues :
       LocalSet(prefix, key, value)
  \/ \E prefix \in Prefixes, key \in Keys : LocalRemove(prefix, key)
  \/ \E prefix \in Prefixes : LocalClear(prefix)
  \/ \E prefix \in Prefixes, key \in Keys : LocalGet(prefix, key)
  \/ \E key \in BackingKeys, text \in ForeignTexts : ForeignSetItem(key, text)

SpecStores == Init /\ [][NextStores]_vars

\* The prefix of a LocalStorageService that has localStorage to itself.
OnePrefix == <<"a">>

\* A LocalStorageService whose items other code may overwrite, and an
\* InMemoryStorageService, each used on its own.
NextAdapters ==
  \/ \E key \in Keys, value \in StoredValues : LocalSet(OnePrefix, key, value)
  \/ \E key \in Keys : LocalRemove(OnePrefix, key)
  \/ LocalClear(OnePrefix)
  \/ \E key \in Keys : LocalGet(OnePrefix, key)
  \/ \E key \in Keys, text \in ForeignTexts :
       ForeignSetItem(buildKey(OnePrefix, key), text)
  \/ \E key \in Keys, value \in StoredValues : MemorySet(key, value)
  \/ \E key \in Keys : MemoryRemove(key)
  \/ MemoryClear
  \/ \E key \in Keys : MemoryGet(key)

SpecAdapters == Init /\ [][NextAdapters]_vars

\* The same call made on a LocalStorageService that has localStorage to
\* itself and on an InMemoryStorageService.
BothSet(key, value) ==
  /\ localStorage' = [localStorage EXCEPT
                        ![buildKey(OnePrefix, key)] = StorageSet(@, value, FALSE)]
  /\ storage' = [storage EXCEPT ![key] = memorySet(@, value)]
  /\ ret' = [op |-> "set", key |-> key, value |-> value]
  /\ UNCHANGED <<now, sessionDurationMs, currentSession, persisted,
                 validTokens, isLoading, pending, authCalls, registry, generated,
                 refreshing, held>>

BothRemove(key) ==
  /\ localStorage' = [localStorage EXCEPT ![buildKey(OnePrefix, key)] = null]
  /\ storage' = [storage EXCEPT ![key] = null]
  /\ ret' = [op |-> "remove", key |-> key]
  /\ UNCHANGED <<now, sessionDurationMs, currentSession, persisted,
                 validTokens, isLoading, pending, authCalls, registry, generated,
                 refreshing, held>>

BothClear ==
  /\ localStorage' = localClear(OnePrefix)
  /\ storage' = [key \in Keys |-> null]
  /\ ret' = [op |-> "clear"]
  /\ UNCHANGED <<now, sessionDurationMs, currentSession, persisted,
                 validTokens, isLoading, pending, authCalls, registry, generated,
                 refreshing, held>>

BothGet(key) ==
  /\ ret' = [op |-> "get both", key |-> key,
              local |-> localGet(OnePrefix, key), memory |-> memoryGet(key)]
  /\ UNCHANGED <<localStorage, storage, now, sessionDurationMs, currentSession,
                 persisted, validTokens, isLoading, pending, authCalls, registry,
                 generated, refreshing, held>>

NextLockstep ==
  \/ \E key \in Keys, value \in StoredValues : BothSet(key, value)
  \/ \E key \in Keys : BothRemove(key)
  \/ BothClear
  \/ \E key \in Keys : BothGet(key)

SpecLockstep == Init /\ [][NextLockstep]_vars

\* ---------------------------------------------------------------- claims

InProgressResult == [success |-> FALSE, error |-> "Login en progreso"]

\* C1 (as amended): an execute() call made while an accepted one is still
\* awaiting the Authenticator returns {success: false, error: "Login en
\* progreso"} at once, calls authenticate no second time and leaves the
\* in-progress flag, the awaited call, the session, the store and the tokens
\* as they were.
C1_SecondCallRejected ==
  [][(pending # null /\ ret'.op = "execute")
       => /\ ret'.value = InProgressResult
          /\ UNCHANGED <<authCalls, isLoading, pending, currentSession,
                         persisted, validTokens>>]_vars

\* C1 as claimed: the rejected call returns the error "login in progress".
C1_AsClaimed ==
  [][(pending # null /\ ret'.op = "execute")
       => /\ ret'.value = [success |-> FALSE, error |-> "login in progress"]
          /\ UNCHANGED <<authCalls, isLoading, pending, currentSession,
                         persisted, validTokens>>]_vars

\* C1 witness: a call has just been rejected while another is awaited.
C1_Witness ==
  /\ pending # null
  /\ isLoading
  /\ ret = [op |-> "execute", value |-> InProgressResult]

\* C2 (as amended): execute() never throws; when authenticate rejects, or
\* startSession throws after a successful authentication, it resolves to
\* {success: false, error} where error is the thrown value's message if that
\* value is an Error and "Error desconocido durante el login" if it is not.
C2_ExceptionsBecomeResults ==
  [][\A thrown \in Thrown :
       (AuthenticateRejects(thrown) \/ StartSessionThrows(thrown))
         => ret' = [op |-> "resume",
                    value |-> [success |-> FALSE,
                               error |-> IF thrown.isError THEN thrown.message
                                         ELSE "Error desconocido durante el login"]]]_vars

\* C2 as claimed: the result always carries the thrown value's message.
C2_AsClaimed ==
  [][\A thrown \in Thrown :
       (AuthenticateRejects(thrown) \/ StartSessionThrows(thrown))
         => ret' = [op |-> "resume",
                    value |-> [success |-> FALSE, error |-> thrown.message]]]_vars

\* C2 witness: an execute() has resolved to the message of a caught Error.
C2_Witness ==
  /\ ret = [op |-> "resume", value |-> [success |-> FALSE, error |-> "Network down"]]
  /\ ~isLoading

\* C3: a suspended execute() resolves to {success: true, user} exactly when
\* the Authenticator returned success; it has then started the session with
\* the Authenticator's user and token, and getAuthState() reports
\* {isAuthenticated: true, user, isLoading: false}.
C3_SuccessStartsSession ==
  [][ret'.op = "resume" =>
       LET authResult == authenticate(pending.email, pending.password).result
       IN /\ ret'.value.success <=> authResult.success
          /\ authResult.success =>
               /\ ret'.value = [success |-> TRUE, user |-> authResult.user]
               /\ currentSession' = [user |-> authResult.user,
                                     token |-> authResult.token,
                                     createdAt |-> now,
                                     expiresAt |-> now + sessionDurationMs]
               /\ getAuthState' = [isAuthenticated |-> TRUE,
                                   user |-> authResult.user,
                                   isLoading |-> FALSE]]_vars

\* C3 witness: the end-to-end scenario's login has just succeeded.
C3_Witness ==
  /\ ret = [op |-> "resume", value |-> [success |-> TRUE, user |-> TestUser]]
  /\ getAuthState = [isAuthenticated |-> TRUE, user |-> TestUser, isLoading |-> FALSE]

\* C4: when the Authenticator returns a failure, execute() resolves to
\* {success: false} with the Authenticator's error and the Session Manager
\* and its store are exactly as before: no session is started, replaced or
\* ended.
C4_FailureLeavesSession ==
  [][(ret'.op = "resume"
        /\ ~authenticate(pending.email, pending.password).result.success)
       => /\ ret'.value =
               [success |-> FALSE,
                error |-> authenticate(pending.email, pending.password).result.error]
          /\ UNCHANGED <<currentSession, persisted>>
          /\ isActive' = isActive
          /\ getSession' = getSession]_vars

\* C4 witness: a login has just failed while a session stays active.
C4_Witness ==
  /\ ret = [op |-> "resume",
            value |-> [success |-> FALSE, error |-> "Credenciales inválidas"]]
  /\ isActive

\* What the claims call a usable login input, stated without the code's
\* regular expression: no white space, exactly one @ with text before it, and
\* after it a dot with text on both sides.
Count(s, c) == Cardinality({i \in 1..Len(s) : s[i] = c})

Blank(s) == Count(s, " ") = Len(s)

WellFormedEmail(s) ==
  /\ Count(s, " ") = 0
  /\ Count(s, "@") = 1
  /\ \E i \in 2..Len(s) :
       /\ s[i] = "@"
       /\ \E j \in (i + 2)..(Len(s) - 1) : s[j] = "."

InvalidInputErrors ==
  {"El email es requerido", "La contraseña es requerida", "Formato de email inválido"}

\* C5: an execute() call that passes the in-progress guard reaches the
\* Authenticator only with a non-blank, well-formed email and a non-empty
\* password; otherwise it returns an invalid-input failure, calls authenticate
\* not at all and changes nothing.  No step but such a call reaches the
\* Authenticator, and its empty-input error is never execute()'s result.
C5_ValidationFirst ==
  [][/\ (~isLoading /\ ret'.op = "execute") =>
          \/ /\ ret'.value = null
             /\ authCalls' = authCalls + 1
             /\ ~Blank(pending'.email)
             /\ WellFormedEmail(pending'.email)
             /\ pending'.password # ""
          \/ /\ ret'.value # null
             /\ ~ret'.value.success
             /\ ret'.value.error \in InvalidInputErrors
             /\ UNCHANGED <<authCalls, pending, isLoading, currentSession,
                            persisted, validTokens>>
     /\ (authCalls' # authCalls) => (~isLoading /\ ret'.op = "execute")
     /\ (ret'.op = "resume" /\ ~ret'.value.success)
          => ret'.value.error # "Email y contraseña son requeridos"]_vars

\* C5 witness: a malformed email has just been turned down before any
\* authenticate call was made.
C5_Witness ==
  /\ ret = [op |-> "execute",
            value |-> [success |-> FALSE, error |-> "Formato de email inválido"]]
  /\ authCalls = 0
  /\ currentSession = null

\* C6: every accepted execute() call resolves, on the success path, the
\* failure path and the caught-exception path alike; the in-progress flag is
\* set exactly while a call is awaited, so it is clear whenever a call has
\* resolved and only a call that is still awaited gets another one rejected.
C6_EveryCallResolves ==
  /\ [](isLoading <=> pending # null)
  /\ [](ret.op = "resume" => ~isLoading)
  /\ [][(ret'.op = "execute" /\ ret'.value = InProgressResult)
          => pending # null]_vars
  /\ (pending # null) ~> (pending = null /\ ~isLoading)

\* C6 witness: a second call is being awaited, the first one has resolved.
C6_Witness ==
  /\ authCalls > 1
  /\ pending # null
  /\ isLoading

\* C7: logout() ends the session and returns {success: true} when endSession
\* does not throw, whether or not a session was held, and getAuthState() then
\* reports {isAuthenticated: false, user: null}; it returns {success: false}
\* exactly when endSession throws, and always returns a value.
C7_LogoutEndsSession ==
  [][ret'.op = "logout" =>
       /\ ret'.value \in {[success |-> TRUE], [success |-> FALSE]}
       /\ Logout => ret'.value.success
       /\ LogoutThrows => ~ret'.value.success
       /\ ret'.value.success =>
            /\ currentSession' = null
            /\ persisted' = null
            /\ getAuthState'.isAuthenticated = FALSE
            /\ getAuthState'.user = null]_vars

\* C7 witness: a logout has just succeeded.
C7_Witness ==
  /\ ret = [op |-> "logout", value |-> [success |-> TRUE]]
  /\ getAuthState = [isAuthenticated |-> FALSE, user |-> null, isLoading |-> FALSE]

\* C8 as claimed: whenever now > expiresAt, getSession(), getUser() and
\* getToken() return null, isActive() returns false and getTimeRemaining()
\* returns 0.
C8_AsClaimed ==
  (currentSession # null /\ now > currentSession.expiresAt)
    => /\ getSession = null
       /\ getUser = null
       /\ getToken = null
       /\ ~isActive
       /\ getTimeRemaining = 0

\* C9: startSession(u, t) makes {user: u, token: t, createdAt: now,
\* expiresAt: now + ttl} the one session of the manager, whatever session it
\* held before, and getSession() returns {user: u, token: t} from then until
\* the duration has elapsed.
C9_StartSessionReplaces ==
  /\ [][\A user \in Users :
          StartSession(user, ForeignToken)
            => /\ currentSession' = [user |-> user, token |-> ForeignToken,
                                     createdAt |-> now,
                                     expiresAt |-> now + sessionDurationMs]
               /\ getSession' = [user |-> user, token |-> ForeignToken]]_vars
  /\ []((currentSession # null
           /\ now <= currentSession.createdAt + sessionDurationMs
           /\ currentSession.expiresAt = currentSession.createdAt + sessionDurationMs)
          => getSession = [user |-> currentSession.user,
                           token |-> currentSession.token])

\* C9 witness: a session started by a direct call, after a login had issued a
\* token, is being read back on the last instant of its duration.
C9_Witness ==
  /\ currentSession # null
  /\ currentSession.token = ForeignToken
  /\ validTokens # {}
  /\ now = currentSession.createdAt + sessionDurationMs
  /\ getSession = [user |-> AdminUser, token |-> ForeignToken]

\* C10 as claimed: whenever a Session Manager holds a SessionState,
\* expiresAt > createdAt.
C10_AsClaimed ==
  currentSession # null => currentSession.expiresAt > currentSession.createdAt

\* A value read from the store is a SessionState: it has a user and a token.
IsSessionState(stored) ==
  /\ stored # null
  /\ stored.user # undefined
  /\ stored.token # undefined

\* C11 as claimed: a Session Manager constructed over a store exposes the
\* persisted SessionState R when R has not expired (now <= R.expiresAt); when
\* R has expired it exposes no session and has removed the record; over a
\* store with no record or a malformed one it exposes no session.
C11_AsClaimed ==
  [][Reload =>
       LET stored == StorageGet(persisted)
       IN IF IsSessionState(stored)
          THEN IF now <= stored.expiresAt
               THEN /\ isActive'
                    /\ getSession' = [user |-> stored.user, token |-> stored.token]
               ELSE /\ ~isActive'
                    /\ getSession' = null
                    /\ persisted' = null
          ELSE /\ ~isActive'
               /\ getSession' = null]_vars

\* C12: over a store that does not fail, the record persisted under the
\* session key is the in-memory SessionState (same user, token, createdAt,
\* expiresAt), and there is no record exactly when the manager holds none.
C12_PersistedMirrorsMemory ==
  IF currentSession = null THEN persisted = null
  ELSE /\ persisted # null
       /\ StorageGet(persisted) = currentSession

\* C12 witness: an extended session and its record agree.
C12_Witness ==
  /\ currentSession # null
  /\ currentSession.expiresAt > currentSession.createdAt + sessionDurationMs
  /\ persisted = stringify(currentSession)

\* C13: endSession() leaves no session in memory and no record in the store,
\* whatever the state it is called in; called again right after, it changes
\* nothing.
C13_EndSessionIdempotent ==
  /\ [][EndSession => /\ currentSession' = null
                       /\ persisted' = null
                       /\ ~isActive'
                       /\ getSession' = null]_vars
  /\ [][(EndSession /\ ret.op = "endSession")
          => /\ UNCHANGED <<currentSession, persisted>>
             /\ isActive' = isActive
             /\ getSession' = getSession]_vars

\* C13 witness: endSession() has just been called twice in a row.
C13_Witness ==
  /\ ret = [op |-> "endSession", repeated |-> TRUE]
  /\ ~isActive
  /\ persisted = null

\* C14: extendSession() on an active session sets expiresAt to now + the
\* duration, persists the result and leaves user, token and createdAt as
\* they were; with no session or an expired one it changes nothing.  A held
\* session that has expired becomes active again only by being replaced with
\* a session that starts now.
C14_ExtendOnlyWhenActive ==
  /\ [][ExtendSession =>
          IF isActive
          THEN /\ currentSession' = [currentSession EXCEPT
                                       !.expiresAt = now + sessionDurationMs]
               /\ persisted' = stringify(currentSession')
          ELSE UNCHANGED <<currentSession, persisted>>]_vars
  /\ [][(currentSession # null /\ isExpired /\ isActive')
          => /\ currentSession'.createdAt = now
             /\ currentSession'.expiresAt = now + sessionDurationMs]_vars

\* C14 witness: a session lives past its first expiry time, having been
\* extended.
C14_Witness ==
  /\ isActive
  /\ now > currentSession.createdAt + sessionDurationMs
  /\ currentSession.expiresAt = now + sessionDurationMs

\* C15: getTimeRemaining() is never negative, is 0 when there is no session
\* or the held one has expired, and is expiresAt - now otherwise.
C15_TimeRemaining ==
  /\ getTimeRemaining >= 0
  /\ (currentSession = null \/ isExpired) => getTimeRemaining = 0
  /\ (currentSession # null /\ ~isExpired)
       => getTimeRemaining = currentSession.expiresAt - now

\* C15 witness: an expired session is held, its expiry lies in the past.
C15_Witness ==
  /\ currentSession # null
  /\ currentSession.expiresAt - now < 0
  /\ getTimeRemaining = 0

\* C16: no object a caller holds is the Session Manager's own user object,
\* and a caller's assignment to an object it got from getSession() or
\* getUser(), or passed to startSession(), changes neither the results of
\* getSession() and getUser() nor the persisted record.
C16_NoAliasIntoSession ==
  /\ [](held # null => SessionUser \notin held.is)
  /\ [][(\E name \in OtherNames : CallerMutates(name))
          => /\ getSession' = getSession
             /\ getUser' = getUser
             /\ UNCHANGED <<currentSession, persisted>>]_vars

\* C16 witness: the caller has renamed the object getUser() gave it, and
\* getUser() still returns the user under the old name.
C16_Witness ==
  /\ held # null
  /\ held.via = "getUser"
  /\ held.value.name = "Mallory"
  /\ getUser = TestUser
  /\ StorageGet(persisted).user = TestUser

\* C17 as claimed: a caller's assignment to the user object of an AuthResult
\* or a LoginResult does not change the user a later authenticate() with the
\* same credentials returns.
C17_AsClaimed ==
  [][(\E name \in OtherNames : CallerMutates(name))
      => \A i \in 1..Len(registry) :
           findValidUser(validUsers[i].email, validUsers[i].password).user'
             = findValidUser(validUsers[i].email, validUsers[i].password).user]_vars

\* The token a step has just handed to its caller, or null: the one of a
\* successful authenticate(), direct or awaited by execute() (which passes it
\* to startSession), or the one a refreshToken() returned.
IssuedToken ==
  IF ret.op = "authenticate" /\ ret.value.success THEN ret.value.token
  ELSE IF ret.op = "resume" /\ ret.value.success THEN currentSession.token
  ELSE IF ret.op = "refreshToken" THEN ret.value
  ELSE null

\* C18: validateToken(t) returns whether t is in the valid-token set.  A
\* token enters the set only as the new token a successful authenticate() or
\* refreshToken() returns in that step, and it is valid right then; it leaves
\* the set only as the argument of a successful refreshToken(), or with the
\* whole Authenticator when a new one is created.  A token never issued is
\* not valid.
C18_ValidIffIssuedAndNotConsumed ==
  /\ [][ret'.op = "validateToken"
          => ret'.value = (ret'.token \in validTokens)]_vars
  /\ [][\A t \in validTokens' \ validTokens :
          /\ t.rnd = generated
          /\ IssuedToken' = t
          /\ validateToken(t)']_vars
  /\ [][(IssuedToken' # null) => IssuedToken' \in validTokens']_vars
  /\ [][\A t \in validTokens \ validTokens' :
          \/ ret'.op = "refreshToken" /\ ret'.token = t /\ ret'.value # null
          \/ Reload]_vars
  /\ [](\A t \in validTokens : t.rnd < generated)
  /\ [](~validateToken(ForeignToken))

\* C18 witness: validateToken() has just returned false for a login's token
\* that a refreshToken() had consumed, while the refreshed token is valid.
C18_Witness ==
  /\ ret.op = "validateToken"
  /\ ret.token = [uid |-> "1", rnd |-> 0]
  /\ ret.value = FALSE
  /\ validateToken([uid |-> "refreshed", rnd |-> 1])

\* C19: a refreshToken(t) that finds t valid returns a new token and, in the
\* same step, makes t invalid and the new token valid, changing nothing else
\* of the set; one that finds t not valid returns null.  New tokens are
\* always fresh, so t is never valid again: of two refreshToken(t) calls
\* that overlap, the one resolving after a successful one returns null.
C19_RefreshSwapsAtomically ==
  /\ [][ret'.op = "refreshToken"
          => IF ret'.token \in validTokens
             THEN /\ ret'.value # null
                  /\ ret'.value \notin validTokens
                  /\ validTokens' = (validTokens \ {ret'.token}) \cup {ret'.value}
                  /\ ret'.token \notin validTokens'
                  /\ ret'.value \in validTokens'
             ELSE /\ ret'.value = null
                  /\ validTokens' = validTokens]_vars
  /\ [][\A t \in validTokens' \ validTokens : t.rnd = generated]_vars
  /\ [][(ret.op = "refreshToken" /\ ret.value # null
           /\ ret'.op = "refreshToken" /\ ret'.token = ret.token)
          => ret'.value = null]_vars

\* C19 witness: of two overlapping refreshToken() calls on a login's token,
\* the second has just returned null; the first one's new token is valid.
C19_Witness ==
  /\ ret = [op |-> "refreshToken", token |-> [uid |-> "1", rnd |-> 0],
             overlapped |-> TRUE, value |-> null]
  /\ validTokens = {[uid |-> "refreshed", rnd |-> 1]}

\* C20: authenticate() with an empty field or with credentials that match no
\* registry entry returns {success: false, error}, and refreshToken() with a
\* token that is not valid returns null; none of them adds or removes a token.
C20_FailuresChangeNothing ==
  /\ [][ret'.op = "authenticate"
          => IF ret'.email = <<>> \/ ret'.password = ""
             THEN /\ ret'.value = [success |-> FALSE,
                                    error |-> "Email y contraseña son requeridos"]
                  /\ validTokens' = validTokens
             ELSE IF \A i \in 1..Len(validUsers) :
                       \/ validUsers[i].email # ret'.email
                       \/ validUsers[i].password # ret'.password
             THEN /\ ret'.value = [success |-> FALSE,
                                    error |-> "Credenciales inválidas"]
                  /\ validTokens' = validTokens
             ELSE ret'.value.success]_vars
  /\ [][(ret'.op \in {"authenticate", "resume"} /\ ~ret'.value.success)
          => validTokens' = validTokens]_vars
  /\ [][(ret'.op = "refreshToken" /\ ret'.token \notin validTokens)
          => (ret'.value = null /\ validTokens' = validTokens)]_vars

\* C20 witness: an authenticate() with a wrong password has just failed and
\* the token of an earlier login is still the only valid one.
C20_Witness ==
  /\ ret = [op |-> "authenticate", email |-> TestEmail, password |-> "admin123",
             value |-> [success |-> FALSE, error |-> "Credenciales inválidas"]]
  /\ validTokens = {[uid |-> "1", rnd |-> 0]}

\* C21: logout(), endSession() and the passing of time leave the valid-token
\* set as it is, so the token of the session that ends stays valid; a token
\* leaves the set of an Authenticator only as the argument of a successful
\* refreshToken().
C21_EndingKeepsToken ==
  /\ [][(ret'.op \in {"logout", "endSession"} \/ now' # now)
          => validTokens' = validTokens]_vars
  /\ [][(ret'.op \in {"logout", "endSession"}
           /\ currentSession # null /\ validateToken(currentSession.token))
          => currentSession.token \in validTokens']_vars
  /\ [][\A t \in validTokens \ validTokens' :
          \/ ret'.op = "refreshToken" /\ ret'.token = t /\ ret'.value # null
          \/ Reload]_vars

\* C21 witness: validateToken() has just returned true for the token of a
\* login whose session a logout has ended.
C21_Witness ==
  /\ ret = [op |-> "validateToken", token |-> [uid |-> "1", rnd |-> 0], value |-> TRUE]
  /\ currentSession = null
  /\ persisted = null
  /\ generated = 1

\* C28 as claimed: whenever the Session Manager reports an active session,
\* the token of that session is in the Authenticator's valid-token set.
C28_AsClaimed ==
  isActive => validateToken(getToken)

\* Values that JSON writes and reads back unchanged.
Representable == { [num |-> 1], [num |-> 2] }

\* What get(key) returns after set(key, value) on an adapter whose get(key)
\* returned before: the value when JSON can write it, null for undefined and
\* NaN, and what it was when JSON.stringify throws.
ReadBack(value, before) ==
  IF value \in Representable THEN value
  ELSE IF stringifyThrows(value) THEN before
  ELSE null

\* C22: on either adapter get(k) returns the value of the latest set(k, v) when
\* JSON can represent v, null when v is undefined or NaN, and what it returned
\* before when v cannot be serialised; set leaves the adapter's other keys
\* alone; get(k) is null after remove(k), after clear(), for a key never set
\* and for content that does not parse; get changes nothing.
C22_GetReturnsLastSet ==
  /\ [][\A prefix \in {OnePrefix}, key \in Keys :
          /\ \A value \in StoredValues : LocalSet(prefix, key, value) =>
                /\ localGet(prefix, key)' = ReadBack(value, localGet(prefix, key))
                /\ \A other \in Keys \ {key} :
                      buildKey(prefix, other) # buildKey(prefix, key)
                        => localGet(prefix, other)' = localGet(prefix, other)
          /\ LocalRemove(prefix, key) => localGet(prefix, key)' = null
          /\ LocalClear(prefix) => localGet(prefix, key)' = null]_vars
  /\ [][\A key \in Keys :
          /\ \A value \in StoredValues : MemorySet(key, value) =>
                /\ memoryGet(key)' = ReadBack(value, memoryGet(key))
                /\ \A other \in Keys \ {key} : memoryGet(other)' = memoryGet(other)
          /\ MemoryRemove(key) => memoryGet(key)' = null
          /\ MemoryClear => memoryGet(key)' = null]_vars
  /\ [][ret'.op = "get" =>
          /\ ret'.value = localGet(ret'.prefix, ret'.key)
          /\ UNCHANGED <<localStorage, storage>>]_vars
  /\ [][ret'.op = "memory get" =>
          /\ ret'.value = memoryGet(ret'.key)
          /\ UNCHANGED <<localStorage, storage>>]_vars
  /\ [](\A prefix \in {OnePrefix}, key \in Keys :
          localStorage[buildKey(prefix, key)]
              \in {null, [text |-> "{oops"], [text |-> "undefined"]}
            => localGet(prefix, key) = null)
  /\ [](\A key \in Keys : storage[key] = null => memoryGet(key) = null)

\* A value set twice over is read back as the second one, on both adapters,
\* while another key holds text that does not parse.
C22_Witness ==
  /\ ret = [op |-> "get", prefix |-> <<"a">>, key |-> <<"k">>, value |-> [num |-> 2]]
  /\ localStorage[<<"a", "b", "k">>] = [text |-> "{oops"]
  /\ memoryGet(<<"k">>) = [num |-> 1]
  /\ memoryGet(<<"b", "k">>) = [num |-> 2]

\* C22 as the specification states it: get(k) returns whatever value the
\* latest set(k, v) was given.
C22_AsClaimed ==
  /\ [][\A prefix \in {OnePrefix}, key \in Keys, value \in StoredValues :
          LocalSet(prefix, key, value) => localGet(prefix, key)' = value]_vars
  /\ [][\A key \in Keys, value \in StoredValues :
          MemorySet(key, value) => memoryGet(key)' = value]_vars

\* The backing keys of the adapter constructed with prefix.
KeysOf(prefix) == { buildKey(prefix, key) : key \in Keys }

\* C23 as the specification states it: clear() on one adapter leaves every
\* item of an adapter with a different prefix, and every un-prefixed item, in
\* localStorage with its value.
C23_AsClaimed ==
  [][\A prefix \in Prefixes : LocalClear(prefix) =>
        /\ \A other \in Prefixes \ {prefix} :
             \A key \in KeysOf(other) \ KeysOf(prefix) :
                localStorage'[key] = localStorage[key]
        /\ \A key \in BackingKeys \ UNION { KeysOf(any) : any \in Prefixes } :
             localStorage'[key] = localStorage[key]]_vars

\* C25: a LocalStorageService that has a working localStorage to itself and an
\* InMemoryStorageService given the same calls return the same value from
\* every get.
C25_AdaptersAgree ==
  /\ \A key \in Keys : localGet(OnePrefix, key) = memoryGet(key)
  /\ ret.op = "get both" => ret.local = ret.memory

\* Both return the second value set under a key while the other key was set
\* to undefined, which the two adapters store differently.
C25_Witness ==
  /\ ret = [op |-> "get both", key |-> <<"k">>,
             local |-> [num |-> 2], memory |-> [num |-> 2]]
  /\ storage[<<"b", "k">>] = undefined
  /\ localStorage[buildKey(OnePrefix, <<"b", "k">>)] = [text |-> "undefined"]

\* C24 as the specification states it: over a store that fails on writes and
\* removals startSession, extendSession and endSession complete without
\* throwing, and getSession and isActive show the new state.
C24_AsClaimed ==
  /\ [](ret.op \in {"startSession", "extendSession", "endSession"} /\ "threw" \in DOMAIN ret
          => ~ret.threw)
  /\ [](ret.op = "startSession" => isActive /\ getSession # null)
  /\ [](ret.op = "endSession" => ~isActive /\ getSession = null)

\* C26: a getAuthState() call changes neither the in-progress flag, nor the
\* Session Manager's session, nor the store; its isLoading is the flag, and
\* the flag is set exactly while an accepted execute() awaits the
\* Authenticator.
C26_GetAuthStatePure ==
  /\ [][ret'.op = "getAuthState" =>
          /\ UNCHANGED <<isLoading, pending, currentSession, sessionDurationMs,
                         persisted, localStorage, storage>>
          /\ ret'.value.isLoading = (pending # null)]_vars
  /\ [](isLoading <=> pending # null)
  /\ [](getAuthState.isLoading <=> pending # null)

\* getAuthState() was called while a login was awaiting the Authenticator
\* and a session of an earlier login was active.
C26_Witness ==
  /\ ret.op = "getAuthState"
  /\ ret.value.isLoading
  /\ ret.value.isAuthenticated
  /\ pending # null

\* C27 as the specification states it: after logout() returned
\* {success: true} the session is inactive until an execute() issued after
\* the logout succeeds, also when an execute() accepted before the logout
\* resumes.
C27_AsClaimed ==
  [][(ret.op = "logout" /\ ret.value.success /\ pending # null /\ ret'.op = "resume")
       => ~getAuthState'.isAuthenticated]_vars

\* C29 as the specification states it: in every getAuthState() result
\* isAuthenticated is true exactly when user is not null.
C29_AsClaimed ==
  ret.op = "getAuthState" => (ret.value.isAuthenticated <=> ret.value.user # null)

\* C30 as the specification states it: at every instant isActive(), a
\* non-null getSession(), a positive getTimeRemaining() and a restoring
\* constructor agree.
C30_AsClaimed ==
  /\ isActive <=> getSession # null
  /\ isActive <=> getTimeRemaining > 0
  /\ isActive <=> restores
====
